---- MODULE Spec2Model ----
(***************************************************************************)
(* Model of the deep-search agent loop (runAgentLoop), its SystemContext   *)
(* and the bulk crawler (bulkCrawlWebsites / crawlWebsite / scrapeUrl).     *)
(*                                                                         *)
(* Spec      : one request handled by runAgentLoop, one action per await.  *)
(* FairSpec  : Spec plus "every provider call eventually returns/throws".  *)
(* SpecCrawl : one call of scrapeUrl(urls) -> bulkCrawlWebsites -> one      *)
(*             crawlWebsite retry loop per URL, running concurrently.      *)
(* SpecSummarize : one call of summarizeURLs(inputs).                      *)
(* SpecPipeline  : one call of searchAndScrape: search, scrape, summarize. *)
(* SpecCtx   : a SystemContext under any sequence of method calls.         *)
(* SpecSink  : two runs of runAgentLoop, with a recording and with a no-op *)
(*             progress sink, fed the same provider responses.             *)
(* SpecOrder : two runs of runAgentLoop with the same plans, outcomes and  *)
(*             decisions, whose search branches settle in their own order. *)
(***************************************************************************)
EXTENDS Integers, Sequences, FiniteSets, TLC

VARIABLES
  \* ---- runAgentLoop and its SystemContext (ctx) ----
  pc,                 \* position of runAgentLoop: "loop" | "plan" | "search" | "decide" | "answered" | "rejected"
  step,               \* ctx.step
  searchHistory,      \* ctx.searchHistory
  mostRecentFeedback, \* ctx.mostRecentFeedback ("undefined" until the first updateFeedback)
  generated,          \* queries of the last object the generation provider returned to queryRewriter
  planResult,         \* planResult.queries of the current iteration
  searchResults,      \* the promises of searchPromises / outcomes of Promise.allSettled, by position
  failedResults,      \* failedResults of the current iteration
  decision,           \* decision.decision of the last getDecision result ("none" before)
  answers,            \* the isFinal flag of every answerQuestion invocation, in order
  calls,              \* number of provider calls made so far, by callee
  continues,          \* number of iterations completed with a "continue" decision
  rejectedBy,         \* which call's error made runAgentLoop reject ("none" if it did not)
  organic,            \* the search provider's answer (list of links) for each query
  promptFeedback,     \* what getMostRecentFeedback() gave the last queryRewriter call for its prompt ("unread" before)
  feedbacks,          \* decision.feedback of every getDecision result, in order
  \* ---- scrapeUrl / bulkCrawlWebsites / crawlWebsite ----
  urls,               \* options.urls
  maxRetries,         \* options.maxRetries
  crawlPc,            \* position of each crawlWebsite call: "loop" | "fetch" | "backoff" | "done"
  attempts,           \* crawlWebsite's attempts, per call
  fetches,            \* number of fetch() calls made, per call
  delay,              \* last backoff delay computed, per call (0: none yet)
  responses,          \* what each fetch() of a call ended with, in order: a page text, "non-2xx" or "threw"
  crawl,              \* the CrawlResponse of each finished crawlWebsite call
  bulk,               \* the BulkCrawlResponse, once Promise.all resolved
  scrape,             \* the ScrapeResult returned by scrapeUrl
  \* ---- summarizeURLs ----
  inputs,             \* the SummarizeUrlInput list given to summarizeURLs
  summarizing,        \* the promise of each inputs.map callback: state, value, and whether summarizeURL threw
  summaries,          \* the promise returned by summarizeURLs
  \* ---- searchAndScrape ----
  pipePc,             \* position of searchAndScrape: "idle" | "search" | "scrape" | "summarize" | "returned" | "rejected"
  pipeQuery,          \* its query argument
  serper,             \* searchResults.organic, as the search provider returned it
  pipeRet,            \* the value searchAndScrape resolved with
  serperCalls,        \* number of searchSerper calls searchAndScrape made
  \* ---- SystemContext, its other fields and its callers' view ----
  messages,           \* ctx.messages
  userLocation,       \* ctx.userLocation
  tokenUsageHistory,  \* ctx.tokenUsageHistory
  lastCall,           \* name of the method called last ("none" before the first call)
  reads,              \* per accessor: what its last call returned, and how often it was called since the last mutator
  ctxCalls,           \* number of method calls made
  \* ---- two runs of runAgentLoop fed the same provider responses ----
  runA,               \* the run whose writeMessageAnnotation records
  runB                \* the run whose writeMessageAnnotation is () => {}

loopVars == <<pc, step, searchHistory, mostRecentFeedback, generated, planResult,
              searchResults, failedResults, decision, answers, calls, continues,
              rejectedBy, organic, promptFeedback, feedbacks>>
crawlVars == <<urls, maxRetries, crawlPc, attempts, fetches, delay, responses, crawl, bulk, scrape>>
sumVars == <<inputs, summarizing, summaries>>
pipeVars == <<pipePc, pipeQuery, serper, pipeRet, serperCalls>>
ctxVars == <<messages, userLocation, tokenUsageHistory, lastCall, reads, ctxCalls>>
sinkVars == <<runA, runB>>
\* the variables of runAgentLoop that are not fields of its SystemContext
agentVars == <<pc, generated, planResult, searchResults, failedResults, decision,
               answers, calls, continues, rejectedBy, organic, promptFeedback, feedbacks>>
vars == <<loopVars, crawlVars, sumVars, pipeVars, ctxVars, sinkVars>>
\* what the agent loop's own steps, and the crawler's own steps, leave alone
exceptLoop == <<crawlVars, sumVars, pipeVars, ctxVars, sinkVars>>
exceptCrawl == <<loopVars, sumVars, pipeVars, ctxVars, sinkVars>>
exceptSummarize == <<loopVars, crawlVars, pipeVars, ctxVars, sinkVars>>
exceptCtx == <<agentVars, crawlVars, sumVars, pipeVars, sinkVars>>
exceptSink == <<loopVars, crawlVars, sumVars, pipeVars, ctxVars>>

(***************************************************************************)
(* Bounds of the model                                                     *)
(***************************************************************************)
\* longest query list the generation provider hands to the schema
MaxGen == 6
\* longest URL list given to bulkCrawlWebsites
MaxUrls == 2

Queries == {"q1", "q2"}
Feedbacks == {"f1", "f2"}
Urls == {"u1", "u2"}
Texts == {"t1", "t2"}

\* Query lists the generation provider may return: a, b, a, b, ... of every
\* length 0..MaxGen (a = b gives a list repeating one query).
GenPool ==
  { [i \in 1..n |-> IF i % 2 = 1 THEN a ELSE b] : a \in Queries, b \in Queries, n \in 0..MaxGen }

\* What the search provider returns (organic links, in ranking order) per query.
Worlds ==
  { [q \in Queries |-> IF q = "q1" THEN <<"u1", "u2">> ELSE w] : w \in {<<"u2">>, <<>>} }

(***************************************************************************)
(* SystemContext                                                           *)
(***************************************************************************)
StepLimit == 2

shouldStop(s) == s >= StepLimit

incrementStep_Twice(s) == s + 2
incrementStep_Forgets(s) == s
incrementStep(s) == s + 1

\* variant: unshift instead of push
reportSearch_Unshift(history, search) == <<search>> \o history
reportSearch(history, search) == Append(history, search)

\* variant: the first feedback is kept
updateFeedback_KeepsFirst(old, feedback) == IF old = "undefined" THEN feedback ELSE old
updateFeedback(old, feedback) == feedback

getMostRecentFeedback(fb) == IF fb = "undefined" THEN "" ELSE fb

(***************************************************************************)
(* queryRewriter: generateObject validates the object against              *)
(* queryRewriterSchema (queries: z.array(z.string()).min(1).max(5)) and    *)
(* throws when it does not match.                                          *)
(***************************************************************************)
MIN_QUERIES == 1
MAX_QUERIES == 5

queryRewriterSchema_OffByOne(queries) ==
  Len(queries) >= MIN_QUERIES /\ Len(queries) <= MAX_QUERIES + 1
queryRewriterSchema(queries) ==
  Len(queries) >= MIN_QUERIES /\ Len(queries) <= MAX_QUERIES

(***************************************************************************)
(* searchAndScrape: the record of a query whose pipeline fulfilled, one    *)
(* result per organic search result, in the provider's order.              *)
(***************************************************************************)
NoRecord == [query |-> "", results |-> <<>>]

searchAndScrape(query, links) ==
  [query |-> query, results |-> [i \in 1..Len(links) |-> [url |-> links[i]]]]

Pending == [status |-> "pending", value |-> NoRecord]
Fulfilled(v) == [status |-> "fulfilled", value |-> v]
Rejected == [status |-> "rejected", value |-> NoRecord]

(***************************************************************************)
(* Processing of the Promise.allSettled outcomes                           *)
(***************************************************************************)
IsFulfilled(r) == r.status = "fulfilled"
IsRejected(r) == r.status = "rejected"

successfulResults(results) ==
  LET ok == SelectSeq(results, IsFulfilled)
  IN  [i \in 1..Len(ok) |-> ok[i].value]

\* failedResults: .filter(rejected).map((result, index) => queries[index]),
\* index being the position in the filtered array
failedResultsOf(results, queries) ==
  LET bad == SelectSeq(results, IsRejected)
  IN  [i \in 1..Len(bad) |-> [query |-> queries[i]]]

RECURSIVE reportAll(_, _)
reportAll(history, records) ==
  IF records = <<>> THEN history
  ELSE reportAll(reportSearch(history, Head(records)), Tail(records))

isAnswer_Inverted(d) == d = "continue"
isAnswer(d) == d = "answer"

(***************************************************************************)
(* runAgentLoop                                                            *)
(***************************************************************************)
LoopInit ==
  /\ pc = "loop"
  /\ step = 0
  /\ searchHistory = <<>>
  /\ mostRecentFeedback = "undefined"
  /\ generated = <<>>
  /\ planResult = <<>>
  /\ searchResults = <<>>
  /\ failedResults = <<>>
  /\ decision = "none"
  /\ answers = <<>>
  /\ calls = [queryRewriter |-> 0, searchAndScrape |-> 0, getDecision |-> 0]
  /\ continues = 0
  /\ rejectedBy = "none"
  /\ promptFeedback = "unread"
  /\ feedbacks = <<>>

CrawlIdle ==
  /\ urls = <<>>
  /\ maxRetries = 0
  /\ crawlPc = <<>>
  /\ attempts = <<>>
  /\ fetches = <<>>
  /\ delay = <<>>
  /\ responses = <<>>
  /\ crawl = <<>>
  /\ bulk = [state |-> "pending", success |-> FALSE, results |-> <<>>, error |-> <<>>]
  /\ scrape = [state |-> "pending", success |-> FALSE, pages |-> <<>>, error |-> <<>>]

SummarizeIdle ==
  /\ inputs = <<>>
  /\ summarizing = <<>>
  /\ summaries = [state |-> "idle", value |-> <<>>]

PipelineIdle ==
  /\ pipePc = "idle"
  /\ pipeQuery = ""
  /\ serper = <<>>
  /\ pipeRet = [query |-> "", results |-> <<>>]
  /\ serperCalls = 0

\* the accessors of SystemContext
Accessors == {"shouldStop", "getMostRecentFeedback", "getSearchHistory", "getMessageHistory",
              "getUserLocationContext", "getTotalTokenUsage"}
NoLocation == [defined |-> FALSE, latitude |-> "", longitude |-> "", city |-> "", country |-> ""]
\* nothing read yet
NoReads ==
  [shouldStop |-> [times |-> 0, value |-> FALSE],
   getMostRecentFeedback |-> [times |-> 0, value |-> ""],
   getSearchHistory |-> [times |-> 0, value |-> <<>>],
   getMessageHistory |-> [times |-> 0, value |-> <<>>],
   getUserLocationContext |-> [times |-> 0, value |-> <<>>],
   getTotalTokenUsage |-> [times |-> 0, value |-> 0]]

\* new SystemContext([], undefined), no method called yet
CtxIdle ==
  /\ messages = <<>>
  /\ userLocation = NoLocation
  /\ tokenUsageHistory = <<>>
  /\ lastCall = "none"
  /\ reads = NoReads
  /\ ctxCalls = 0

NoRun == [pc |-> "idle"]
SinkIdle ==
  /\ runA = NoRun
  /\ runB = NoRun

Init ==
  /\ LoopInit
  /\ organic \in Worlds
  /\ CrawlIdle
  /\ SummarizeIdle
  /\ PipelineIdle
  /\ CtxIdle
  /\ SinkIdle

\* while (!ctx.shouldStop()) is false: answerQuestion(ctx, {isFinal: true})
LoopExit ==
  /\ pc = "loop"
  /\ shouldStop(step)
  /\ answers' = Append(answers, TRUE)
  /\ pc' = "answered"
  /\ UNCHANGED <<step, searchHistory, mostRecentFeedback, generated, planResult,
                 searchResults, failedResults, decision, calls, continues,
                 rejectedBy, organic, promptFeedback, feedbacks>>
  /\ UNCHANGED exceptLoop

\* the loop body starts: queryRewriter is called
LoopEnter ==
  /\ pc = "loop"
  /\ ~shouldStop(step)
  /\ calls' = [calls EXCEPT !.queryRewriter = @ + 1]
  /\ promptFeedback' = getMostRecentFeedback(mostRecentFeedback)
  /\ pc' = "plan"
  /\ UNCHANGED <<step, searchHistory, mostRecentFeedback, generated, planResult,
                 searchResults, failedResults, decision, answers, continues,
                 rejectedBy, organic, feedbacks>>
  /\ UNCHANGED exceptLoop

\* the generation provider returns an object: schema check, then the plan
\* annotation and the fan-out (one searchAndScrape call per query)
PlanReturns ==
  /\ pc = "plan"
  /\ \E raw \in GenPool :
       /\ generated' = raw
       /\ IF queryRewriterSchema(raw)
          THEN /\ planResult' = raw
               /\ searchResults' = [i \in 1..Len(raw) |-> Pending]
               /\ calls' = [calls EXCEPT !.searchAndScrape = @ + Len(raw)]
               /\ pc' = "search"
               /\ UNCHANGED rejectedBy
          ELSE /\ pc' = "rejected"
               /\ rejectedBy' = "queryRewriter"
               /\ UNCHANGED <<planResult, searchResults, calls>>
  /\ failedResults' = <<>>
  /\ UNCHANGED <<step, searchHistory, mostRecentFeedback, decision, answers,
                 continues, organic, promptFeedback, feedbacks>>
  /\ UNCHANGED exceptLoop

\* (mutant) the loop calls queryRewriter again after it threw
PlanThrows_Retry ==
  /\ pc = "plan"
  /\ calls' = [calls EXCEPT !.queryRewriter = @ + 1]
  /\ UNCHANGED <<pc, step, searchHistory, mostRecentFeedback, generated, planResult,
                 searchResults, failedResults, decision, answers, continues,
                 rejectedBy, organic, promptFeedback, feedbacks>>
  /\ UNCHANGED exceptLoop

\* the generation provider fails: queryRewriter throws, nothing catches it
PlanThrows ==
  /\ pc = "plan"
  /\ pc' = "rejected"
  /\ rejectedBy' = "queryRewriter"
  /\ UNCHANGED <<step, searchHistory, mostRecentFeedback, generated, planResult,
                 searchResults, failedResults, decision, answers, calls,
                 continues, organic, promptFeedback, feedbacks>>
  /\ UNCHANGED exceptLoop

\* variant: the branch itself reports its record when it fulfils
BranchFulfils_Reports(i) ==
  /\ pc = "search"
  /\ searchResults[i].status = "pending"
  /\ searchResults' = [searchResults EXCEPT
                         ![i] = Fulfilled(searchAndScrape(planResult[i], organic[planResult[i]]))]
  /\ searchHistory' = reportSearch(searchHistory, searchAndScrape(planResult[i], organic[planResult[i]]))
  /\ UNCHANGED <<pc, step, mostRecentFeedback, generated, planResult,
                 failedResults, decision, answers, calls, continues, rejectedBy,
                 organic, promptFeedback, feedbacks>>
  /\ UNCHANGED exceptLoop

\* one branch of searchPromises fulfils with its record
BranchFulfils(i) ==
  /\ pc = "search"
  /\ searchResults[i].status = "pending"
  /\ searchResults' = [searchResults EXCEPT
                         ![i] = Fulfilled(searchAndScrape(planResult[i], organic[planResult[i]]))]
  /\ UNCHANGED <<pc, step, searchHistory, mostRecentFeedback, generated, planResult,
                 failedResults, decision, answers, calls, continues, rejectedBy,
                 organic, promptFeedback, feedbacks>>
  /\ UNCHANGED exceptLoop

\* one branch of searchPromises rejects (searchAndScrape threw)
BranchRejects(i) ==
  /\ pc = "search"
  /\ searchResults[i].status = "pending"
  /\ searchResults' = [searchResults EXCEPT ![i] = Rejected]
  /\ UNCHANGED <<pc, step, searchHistory, mostRecentFeedback, generated, planResult,
                 failedResults, decision, answers, calls, continues, rejectedBy,
                 organic, promptFeedback, feedbacks>>
  /\ UNCHANGED exceptLoop

\* (mutant) Promise.all instead of Promise.allSettled: one rejected branch
\* makes the await throw
AllSettled_FailFast ==
  /\ pc = "search"
  /\ \A i \in 1..Len(searchResults) : searchResults[i].status # "pending"
  /\ IF \E i \in 1..Len(searchResults) : IsRejected(searchResults[i])
     THEN /\ pc' = "rejected"
          /\ rejectedBy' = "searchAndScrape"
          /\ UNCHANGED <<searchHistory, failedResults, calls>>
     ELSE /\ searchHistory' = reportAll(searchHistory, successfulResults(searchResults))
          /\ failedResults' = <<>>
          /\ calls' = [calls EXCEPT !.getDecision = @ + 1]
          /\ pc' = "decide"
          /\ UNCHANGED rejectedBy
  /\ UNCHANGED <<step, mostRecentFeedback, generated, planResult, searchResults,
                 decision, answers, continues, organic, promptFeedback, feedbacks>>
  /\ UNCHANGED exceptLoop

\* variant: getDecision is called before the records are reported
AllSettled_DecidesFirst ==
  /\ pc = "search"
  /\ \A i \in 1..Len(searchResults) : searchResults[i].status # "pending"
  /\ failedResults' = failedResultsOf(searchResults, planResult)
  /\ calls' = [calls EXCEPT !.getDecision = @ + 1]
  /\ pc' = "decide"
  /\ UNCHANGED <<step, searchHistory, mostRecentFeedback, generated, planResult, searchResults,
                 decision, answers, continues, rejectedBy, organic, promptFeedback, feedbacks>>
  /\ UNCHANGED exceptLoop

\* Promise.allSettled resolved: report the successful records, call getDecision
AllSettled ==
  /\ pc = "search"
  /\ \A i \in 1..Len(searchResults) : searchResults[i].status # "pending"
  /\ searchHistory' = reportAll(searchHistory, successfulResults(searchResults))
  /\ failedResults' = failedResultsOf(searchResults, planResult)
  /\ calls' = [calls EXCEPT !.getDecision = @ + 1]
  /\ pc' = "decide"
  /\ UNCHANGED <<step, mostRecentFeedback, generated, planResult, searchResults,
                 decision, answers, continues, rejectedBy, organic, promptFeedback, feedbacks>>
  /\ UNCHANGED exceptLoop

\* getDecision returns: store the feedback, then answer or increment the step
DecisionReturns ==
  /\ pc = "decide"
  /\ \E d \in {"continue", "answer"}, fb \in Feedbacks :
       /\ decision' = d
       /\ mostRecentFeedback' = updateFeedback(mostRecentFeedback, fb)
       /\ feedbacks' = Append(feedbacks, fb)
       /\ IF isAnswer(d)
          THEN /\ answers' = Append(answers, FALSE)
               /\ pc' = "answered"
               /\ UNCHANGED <<step, continues>>
               /\ UNCHANGED <<generated, planResult, searchResults, failedResults>>
          ELSE /\ step' = incrementStep(step)
               /\ continues' = continues + 1
               /\ pc' = "loop"
               \* the iteration's block-scoped constants go out of scope
               /\ generated' = <<>>
               /\ planResult' = <<>>
               /\ searchResults' = <<>>
               /\ failedResults' = <<>>
               /\ UNCHANGED answers
  /\ UNCHANGED <<searchHistory, calls, rejectedBy, organic, promptFeedback>>
  /\ UNCHANGED exceptLoop

\* the generation provider fails: getDecision throws, nothing catches it
DecisionThrows ==
  /\ pc = "decide"
  /\ pc' = "rejected"
  /\ rejectedBy' = "getDecision"
  /\ UNCHANGED <<step, searchHistory, mostRecentFeedback, generated, planResult,
                 searchResults, failedResults, decision, answers, calls,
                 continues, organic, promptFeedback, feedbacks>>
  /\ UNCHANGED exceptLoop

Next ==
  \/ LoopExit
  \/ LoopEnter
  \/ PlanReturns
  \/ PlanThrows
  \/ \E i \in 1..Len(searchResults) : BranchFulfils(i)
  \/ \E i \in 1..Len(searchResults) : BranchRejects(i)
  \/ AllSettled
  \/ DecisionReturns
  \/ DecisionThrows

Spec == Init /\ [][Next]_vars

\* every provider call (planner, search pipeline, decision) eventually returns or throws
FairSpec == Init /\ [][Next]_vars /\ WF_vars(Next)

(***************************************************************************)
(* scraper.ts: crawlWebsite (retry loop), bulkCrawlWebsites, and scrapeUrl *)
(***************************************************************************)
DEFAULT_MAX_RETRIES == 3
MIN_DELAY_MS == 500
MAX_DELAY_MS == 8000

RECURSIVE Pow2(_)
Pow2(n) == IF n = 0 THEN 1 ELSE 2 * Pow2(n - 1)

Min(a, b) == IF a <= b THEN a ELSE b

\* Math.min(MIN_DELAY_MS * Math.pow(2, attempts), MAX_DELAY_MS)
backoffDelay(n) == Min(MIN_DELAY_MS * Pow2(n), MAX_DELAY_MS)

\* CrawlResponse; a failure has no data field ("undefined" when read)
CrawlSuccess(text) == [success |-> TRUE, data |-> text, error |-> "", after |-> 0]
CrawlError(kind, n) == [success |-> FALSE, data |-> "undefined", error |-> kind, after |-> n]
NotCrawled == [success |-> FALSE, data |-> "undefined", error |-> "pending", after |-> 0]

Indices(seq) == 1..Len(seq)

allSuccessful_Some(results) == \E i \in Indices(results) : results[i].result.success
allSuccessful(results) == \A i \in Indices(results) : results[i].result.success

IsFailedEntry(r) == ~r.result.success
IsSuccessEntry(r) == r.result.success

\* the lines `${r.url}: ${error}` of the error message, one per failed entry
errorLines(results) ==
  LET bad == SelectSeq(results, IsFailedEntry)
  IN  [i \in Indices(bad) |-> [url |-> bad[i].url, error |-> bad[i].result.error]]

\* results of Promise.all(urls.map(async (url) => ({url, result: await crawlWebsite(..)})))
bulkResults_Dedup(us, rs) ==
  LET firsts == { i \in Indices(us) : \A j \in 1..(i - 1) : us[j] # us[i] }
      F[i \in 0..Len(us)] ==
        IF i = 0 THEN <<>>
        ELSE IF i \in firsts THEN Append(F[i - 1], [url |-> us[i], result |-> rs[i]])
        ELSE F[i - 1]
  IN  F[Len(us)]
bulkResults(us, rs) == [i \in Indices(us) |-> [url |-> us[i], result |-> rs[i]]]

bulkCrawlWebsites(us, rs) ==
  LET results == bulkResults(us, rs)
  IN  IF ~allSuccessful(results)
      THEN [state |-> "resolved", success |-> FALSE, results |-> results,
            error |-> errorLines(results)]
      ELSE [state |-> "resolved", success |-> TRUE, results |-> results,
            error |-> <<>>]

pagesOf(entries) == [i \in Indices(entries) |-> [url |-> entries[i].url, content |-> entries[i].result.data]]

partialResults(results) == pagesOf(SelectSeq(results, IsSuccessEntry))

scrapeUrl(result) ==
  IF result.success
  THEN [state |-> "returned", success |-> TRUE, pages |-> pagesOf(result.results),
        error |-> <<>>]
  ELSE [state |-> "returned", success |-> FALSE, pages |-> partialResults(result.results),
        error |-> result.error]

\* scrapeUrl(us) was called with maxRetries m: every crawlWebsite call stands at
\* its while check
CrawlInit ==
  /\ urls \in UNION { [1..n -> Urls] : n \in 0..MaxUrls }
  /\ maxRetries \in 0..DEFAULT_MAX_RETRIES
  /\ crawlPc = [i \in Indices(urls) |-> "loop"]
  /\ attempts = [i \in Indices(urls) |-> 0]
  /\ fetches = [i \in Indices(urls) |-> 0]
  /\ delay = [i \in Indices(urls) |-> 0]
  /\ responses = [i \in Indices(urls) |-> <<>>]
  /\ crawl = [i \in Indices(urls) |-> NotCrawled]
  /\ bulk = [state |-> "pending", success |-> FALSE, results |-> <<>>, error |-> <<>>]
  /\ scrape = [state |-> "pending", success |-> FALSE, pages |-> <<>>, error |-> <<>>]

\* while (attempts < maxRetries): fetch is called, or the loop is left
CrawlLoop(i) ==
  /\ crawlPc[i] = "loop"
  /\ IF attempts[i] < maxRetries
     THEN /\ fetches' = [fetches EXCEPT ![i] = @ + 1]
          /\ crawlPc' = [crawlPc EXCEPT ![i] = "fetch"]
          /\ UNCHANGED crawl
     ELSE /\ crawl' = [crawl EXCEPT ![i] = CrawlError("Maximum retry attempts reached", 0)]
          /\ crawlPc' = [crawlPc EXCEPT ![i] = "done"]
          /\ UNCHANGED fetches
  /\ UNCHANGED <<urls, maxRetries, attempts, delay, responses, bulk, scrape>>
  /\ UNCHANGED exceptCrawl

\* response.ok and response.text() resolved
FetchOk(i) ==
  /\ crawlPc[i] = "fetch"
  /\ \E text \in Texts :
       /\ responses' = [responses EXCEPT ![i] = Append(@, text)]
       /\ crawl' = [crawl EXCEPT ![i] = CrawlSuccess(text)]
  /\ crawlPc' = [crawlPc EXCEPT ![i] = "done"]
  /\ UNCHANGED <<urls, maxRetries, attempts, fetches, delay, bulk, scrape>>
  /\ UNCHANGED exceptCrawl

\* variant: the first failed fetch is already the permanent failure
FailedAttempt_GivesUpEarly(i, kind) ==
  /\ attempts' = [attempts EXCEPT ![i] = @ + 1]
  /\ responses' = [responses EXCEPT ![i] =
                     Append(@, IF kind = "Network error after" THEN "threw" ELSE "non-2xx")]
  /\ crawl' = [crawl EXCEPT ![i] = CrawlError(kind, maxRetries)]
  /\ crawlPc' = [crawlPc EXCEPT ![i] = "done"]
  /\ UNCHANGED <<urls, maxRetries, fetches, delay, bulk, scrape>>
  /\ UNCHANGED exceptCrawl

\* variant: the check "attempts === maxRetries" is missing, the loop condition
\* alone ends the call
FailedAttempt_NoFinalCheck(i, kind) ==
  /\ attempts' = [attempts EXCEPT ![i] = @ + 1]
  /\ responses' = [responses EXCEPT ![i] =
                     Append(@, IF kind = "Network error after" THEN "threw" ELSE "non-2xx")]
  /\ delay' = [delay EXCEPT ![i] = backoffDelay(attempts'[i])]
  /\ crawlPc' = [crawlPc EXCEPT ![i] = "backoff"]
  /\ UNCHANGED <<urls, maxRetries, fetches, crawl, bulk, scrape>>
  /\ UNCHANGED exceptCrawl

\* variant: the catch block rethrows once the attempts are used up
FailedAttempt_Rethrows(i, kind) ==
  /\ attempts' = [attempts EXCEPT ![i] = @ + 1]
  /\ responses' = [responses EXCEPT ![i] =
                     Append(@, IF kind = "Network error after" THEN "threw" ELSE "non-2xx")]
  /\ IF attempts'[i] = maxRetries
     THEN /\ crawl' = IF kind = "Network error after" THEN crawl
                      ELSE [crawl EXCEPT ![i] = CrawlError(kind, maxRetries)]
          /\ crawlPc' = [crawlPc EXCEPT ![i] =
                            IF kind = "Network error after" THEN "threw" ELSE "done"]
          /\ UNCHANGED delay
     ELSE /\ delay' = [delay EXCEPT ![i] = backoffDelay(attempts'[i])]
          /\ crawlPc' = [crawlPc EXCEPT ![i] = "backoff"]
          /\ UNCHANGED crawl
  /\ UNCHANGED <<urls, maxRetries, fetches, bulk, scrape>>
  /\ UNCHANGED exceptCrawl

\* attempts++ and either the permanent failure or the backoff wait
FailedAttempt(i, kind) ==
  /\ attempts' = [attempts EXCEPT ![i] = @ + 1]
  /\ responses' = [responses EXCEPT ![i] =
                     Append(@, IF kind = "Network error after" THEN "threw" ELSE "non-2xx")]
  /\ IF attempts'[i] = maxRetries
     THEN /\ crawl' = [crawl EXCEPT ![i] = CrawlError(kind, maxRetries)]
          /\ crawlPc' = [crawlPc EXCEPT ![i] = "done"]
          /\ UNCHANGED delay
     ELSE /\ delay' = [delay EXCEPT ![i] = backoffDelay(attempts'[i])]
          /\ crawlPc' = [crawlPc EXCEPT ![i] = "backoff"]
          /\ UNCHANGED crawl
  /\ UNCHANGED <<urls, maxRetries, fetches, bulk, scrape>>
  /\ UNCHANGED exceptCrawl

\* a non-2xx response
FetchNotOk(i) ==
  /\ crawlPc[i] = "fetch"
  /\ FailedAttempt(i, "Failed to fetch website after")

\* fetch (or response.text()) threw: the catch block
FetchThrows(i) ==
  /\ crawlPc[i] = "fetch"
  /\ FailedAttempt(i, "Network error after")

\* the setTimeout of the backoff fired
BackoffDone(i) ==
  /\ crawlPc[i] = "backoff"
  /\ crawlPc' = [crawlPc EXCEPT ![i] = "loop"]
  /\ UNCHANGED <<urls, maxRetries, attempts, fetches, delay, responses, crawl, bulk, scrape>>
  /\ UNCHANGED exceptCrawl

\* Promise.all resolved: bulkCrawlWebsites builds its response
BulkResolves ==
  /\ bulk.state = "pending"
  /\ \A i \in Indices(urls) : crawlPc[i] = "done"
  /\ bulk' = bulkCrawlWebsites(urls, crawl)
  /\ UNCHANGED <<urls, maxRetries, crawlPc, attempts, fetches, delay, responses, crawl, scrape>>
  /\ UNCHANGED exceptCrawl

\* scrapeUrl resumes after await bulkCrawlWebsites and returns
ScrapeReturns ==
  /\ bulk.state = "resolved"
  /\ scrape.state = "pending"
  /\ scrape' = scrapeUrl(bulk)
  /\ UNCHANGED <<urls, maxRetries, crawlPc, attempts, fetches, delay, responses, crawl, bulk>>
  /\ UNCHANGED exceptCrawl

CrawlNext ==
  \/ \E i \in Indices(urls) : CrawlLoop(i)
  \/ \E i \in Indices(urls) : FetchOk(i)
  \/ \E i \in Indices(urls) : FetchNotOk(i)
  \/ \E i \in Indices(urls) : FetchThrows(i)
  \/ \E i \in Indices(urls) : BackoffDone(i)
  \/ BulkResolves
  \/ ScrapeReturns

InitCrawl ==
  /\ LoopInit
  /\ organic = [q \in Queries |-> <<>>]
  /\ CrawlInit
  /\ SummarizeIdle
  /\ PipelineIdle
  /\ CtxIdle
  /\ SinkIdle

SpecCrawl == InitCrawl /\ [][CrawlNext]_vars

(***************************************************************************)
(* summarizeURLs (summarize-url.ts)                                        *)
(*                                                                         *)
(* A text is a sequence of pieces; a scraped content is named and Chars    *)
(* spells it character by character, so that slice() has something to cut. *)
(***************************************************************************)
\* longest input list given to summarizeURLs
MaxInputs == 5
\* the second argument of scrapedContent.slice(0, 500)
PREVIEW_LENGTH == 500

SENTINEL == "Failed to scrape content"
FALLBACK_PREFIX == "Failed to generate summary for this source. Original content preview: "
\* texts the summarization model may answer with
Summaries == {<<"s1">>, <<"s2">>}

\* the characters of a content: "t1" is short, "t2" is one character longer
\* than the preview
Chars(content) ==
  CASE content = "t1" -> <<"t", "1">>
    [] content = "t2" -> [k \in 1..(PREVIEW_LENGTH + 1) |-> IF k <= PREVIEW_LENGTH THEN "y" ELSE "z"]
    [] content = SENTINEL -> <<"F", "a", "i", "l", "e", "d", " ", "t", "o", " ", "s", "c", "r", "a",
                               "p", "e", " ", "c", "o", "n", "t", "e", "n", "t">>

\* String.prototype.slice(from, to) for 0 <= from <= to
slice(str, from, to) == SubSeq(str, from + 1, Min(to, Len(str)))

NoSummary == [url |-> "", title |-> "", date |-> "", snippet |-> "", summary |-> <<>>]

\* what summarizeUrlInternal returns when the model answered with text
summarizeUrlInternal(input, text) ==
  [url |-> input.url, title |-> input.title, date |-> input.date,
   snippet |-> input.snippet, summary |-> text]

\* the object returned by the catch block of the map callback
fallbackSummary(input) ==
  [url |-> input.url, title |-> input.title, date |-> input.date, snippet |-> input.snippet,
   summary |-> <<FALLBACK_PREFIX>> \o slice(Chars(input.scrapedContent), 0, PREVIEW_LENGTH) \o <<"...">>]

\* inputs of the stand-alone summarizer runs
InputPool ==
  { [url |-> "u1", title |-> "T1", date |-> "2024-01-01", snippet |-> "n1", scrapedContent |-> "t2"],
    [url |-> "u2", title |-> "T2", date |-> "Unknown date", snippet |-> "n2", scrapedContent |-> "t1"] }

\* summarizeURL resolved: the callback returns its value
SummarizeReturns(i) ==
  /\ summaries.state = "pending"
  /\ summarizing[i].state = "pending"
  /\ \E text \in Summaries :
       summarizing' = [summarizing EXCEPT ![i] =
         [state |-> "fulfilled", value |-> summarizeUrlInternal(inputs[i], text), threw |-> FALSE]]
  /\ UNCHANGED <<inputs, summaries>>
  /\ UNCHANGED exceptSummarize

\* variant: no try/catch around summarizeURL, the callback rejects
SummarizeThrows_Uncaught(i) ==
  /\ summaries.state = "pending"
  /\ summarizing[i].state = "pending"
  /\ summarizing' = [summarizing EXCEPT ![i] =
       [state |-> "rejected", value |-> NoSummary, threw |-> TRUE]]
  /\ UNCHANGED <<inputs, summaries>>
  /\ UNCHANGED exceptSummarize

\* summarizeURL threw: the catch block returns the fallback
SummarizeThrows(i) ==
  /\ summaries.state = "pending"
  /\ summarizing[i].state = "pending"
  /\ summarizing' = [summarizing EXCEPT ![i] =
       [state |-> "fulfilled", value |-> fallbackSummary(inputs[i]), threw |-> TRUE]]
  /\ UNCHANGED <<inputs, summaries>>
  /\ UNCHANGED exceptSummarize

\* Promise.all: rejects with the first rejection, resolves once every callback
\* has; summarizeURLs returns the array or rethrows
SummariesSettle ==
  /\ summaries.state = "pending"
  /\ IF \E i \in Indices(inputs) : summarizing[i].state = "rejected"
     THEN summaries' = [state |-> "rejected", value |-> <<>>]
     ELSE /\ \A i \in Indices(inputs) : summarizing[i].state = "fulfilled"
          /\ summaries' = [state |-> "resolved",
                           value |-> [i \in Indices(inputs) |-> summarizing[i].value]]
  /\ UNCHANGED <<inputs, summarizing>>
  /\ UNCHANGED exceptSummarize

\* summarizeURLs(list) is called: one callback per input starts
StartSummarize(list) ==
  /\ inputs = list
  /\ summarizing = [i \in Indices(list) |-> [state |-> "pending", value |-> NoSummary, threw |-> FALSE]]
  /\ summaries = [state |-> "pending", value |-> <<>>]

SummarizeNext ==
  \/ \E i \in Indices(inputs) : SummarizeReturns(i)
  \/ \E i \in Indices(inputs) : SummarizeThrows(i)
  \/ SummariesSettle

InitSummarize ==
  /\ LoopInit
  /\ organic = [q \in Queries |-> <<>>]
  /\ CrawlIdle
  /\ PipelineIdle
  /\ CtxIdle
  /\ SinkIdle
  /\ \E list \in UNION { [1..n -> InputPool] : n \in 0..MaxInputs } : StartSummarize(list)

SpecSummarize == InitSummarize /\ [][SummarizeNext]_vars

(***************************************************************************)
(* searchAndScrape (part_013:39-122): search, scrape every link, pair the  *)
(* pages with the search results, summarize, zip back.  The favicon field  *)
(* (a function of the url alone) is left out of the records.               *)
(***************************************************************************)
\* organic results the search provider may return (I3 repeats the link of I1)
SearchItems ==
  { [title |-> "T1", link |-> "u1", snippet |-> "n1", date |-> "2024-01-01"],
    [title |-> "T2", link |-> "u2", snippet |-> "n2", date |-> "undefined"],
    [title |-> "T3", link |-> "u1", snippet |-> "n3", date |-> "undefined"] }
OrganicPool == UNION { [1..n -> SearchItems] : n \in 0..MaxUrls }

\* searchResults.organic.map(...): date ?? "Unknown date"
searchResultsFormatted(org) ==
  [i \in Indices(org) |->
     [title |-> org[i].title, link |-> org[i].link, snippet |-> org[i].snippet,
      date |-> IF org[i].date = "undefined" THEN "Unknown date" ELSE org[i].date]]

\* pages.find((page) => page.url === link)?.content ?? "Failed to scrape content"
scrapedContent(pages, link) ==
  LET hits == { k \in Indices(pages) : pages[k].url = link }
  IN  IF hits = {} THEN SENTINEL
      ELSE pages[CHOOSE k \in hits : \A h \in hits : k <= h].content

\* variant: search results without a scraped page are dropped
summarizationInputs_SkipFailed(formatted, scrapeResult) ==
  LET kept == SelectSeq(formatted,
                LAMBDA f : \E k \in Indices(scrapeResult.pages) : scrapeResult.pages[k].url = f.link)
  IN  [i \in Indices(kept) |->
         [url |-> kept[i].link, title |-> kept[i].title, date |-> kept[i].date,
          snippet |-> kept[i].snippet,
          scrapedContent |-> scrapedContent(scrapeResult.pages, kept[i].link)]]

\* combinedResults, then summarizationInputs
summarizationInputs(formatted, scrapeResult) ==
  [i \in Indices(formatted) |->
     [url |-> formatted[i].link, title |-> formatted[i].title, date |-> formatted[i].date,
      snippet |-> formatted[i].snippet,
      scrapedContent |-> scrapedContent(scrapeResult.pages, formatted[i].link)]]

\* summaries.map(...)
finalResults(list) ==
  [i \in Indices(list) |->
     [date |-> list[i].date, title |-> list[i].title, url |-> list[i].url,
      snippet |-> list[i].snippet, summary |-> list[i].summary]]

\* searchSerper resolved; scrapeUrl(urls) is called with the links
SearchReturns ==
  /\ pipePc = "search"
  /\ \E org \in OrganicPool :
       /\ serper' = org
       /\ urls' = [i \in Indices(org) |-> searchResultsFormatted(org)[i].link]
       /\ crawlPc' = [i \in Indices(org) |-> "loop"]
       /\ attempts' = [i \in Indices(org) |-> 0]
       /\ fetches' = [i \in Indices(org) |-> 0]
       /\ delay' = [i \in Indices(org) |-> 0]
       /\ responses' = [i \in Indices(org) |-> <<>>]
       /\ crawl' = [i \in Indices(org) |-> NotCrawled]
  /\ maxRetries' = DEFAULT_MAX_RETRIES
  /\ pipePc' = "scrape"
  /\ UNCHANGED <<bulk, scrape, pipeQuery, pipeRet, serperCalls>>
  /\ UNCHANGED <<loopVars, sumVars, ctxVars, sinkVars>>

\* variant: searchSerper is called again after it rejected
SearchThrows_Retry ==
  /\ pipePc = "search"
  /\ serperCalls' = serperCalls + 1
  /\ UNCHANGED <<pipePc, pipeQuery, serper, pipeRet>>
  /\ UNCHANGED <<loopVars, crawlVars, sumVars, ctxVars, sinkVars>>

\* searchSerper rejected: so does searchAndScrape
SearchThrows ==
  /\ pipePc = "search"
  /\ pipePc' = "rejected"
  /\ UNCHANGED <<pipeQuery, serper, pipeRet, serperCalls>>
  /\ UNCHANGED <<loopVars, crawlVars, sumVars, ctxVars, sinkVars>>

\* the steps of scrapeUrl(urls), while searchAndScrape awaits it
Scraping ==
  /\ pipePc = "scrape"
  /\ \/ \E i \in Indices(urls) : CrawlLoop(i)
     \/ \E i \in Indices(urls) : FetchOk(i)
     \/ \E i \in Indices(urls) : FetchNotOk(i)
     \/ \E i \in Indices(urls) : FetchThrows(i)
     \/ \E i \in Indices(urls) : BackoffDone(i)
     \/ BulkResolves
     \/ ScrapeReturns

\* scrapeUrl returned: the inputs are built and summarizeURLs is called
StartSummaries ==
  /\ pipePc = "scrape"
  /\ scrape.state = "returned"
  /\ inputs' = summarizationInputs(searchResultsFormatted(serper), scrape)
  /\ summarizing' = [i \in Indices(inputs') |-> [state |-> "pending", value |-> NoSummary, threw |-> FALSE]]
  /\ summaries' = [state |-> "pending", value |-> <<>>]
  /\ pipePc' = "summarize"
  /\ UNCHANGED <<pipeQuery, serper, pipeRet, serperCalls>>
  /\ UNCHANGED <<loopVars, crawlVars, ctxVars, sinkVars>>

\* summarizeURLs settled: searchAndScrape returns {query, results} or rejects
PipelineReturns ==
  /\ pipePc = "summarize"
  /\ summaries.state \in {"resolved", "rejected"}
  /\ IF summaries.state = "resolved"
     THEN /\ pipeRet' = [query |-> pipeQuery, results |-> finalResults(summaries.value)]
          /\ pipePc' = "returned"
     ELSE /\ pipePc' = "rejected"
          /\ UNCHANGED pipeRet
  /\ UNCHANGED <<pipeQuery, serper, serperCalls>>
  /\ UNCHANGED <<loopVars, crawlVars, sumVars, ctxVars, sinkVars>>

PipelineNext ==
  \/ SearchReturns
  \/ SearchThrows
  \/ Scraping
  \/ StartSummaries
  \/ \E i \in Indices(inputs) : SummarizeReturns(i)
  \/ \E i \in Indices(inputs) : SummarizeThrows(i)
  \/ SummariesSettle
  \/ PipelineReturns

\* searchAndScrape(query, ...) was called and awaits its searchSerper call
InitPipeline ==
  /\ LoopInit
  /\ organic = [q \in Queries |-> <<>>]
  /\ CrawlIdle
  /\ SummarizeIdle
  /\ CtxIdle
  /\ SinkIdle
  /\ pipePc = "search"
  /\ pipeQuery \in Queries
  /\ serper = <<>>
  /\ pipeRet = [query |-> "", results |-> <<>>]
  /\ serperCalls = 1

SpecPipeline == InitPipeline /\ [][PipelineNext]_vars

(***************************************************************************)
(* SystemContext on its own (part_003): any sequence of method calls.      *)
(* A rendered text is the sequence of its pieces.                          *)
(***************************************************************************)
\* most method calls made on one context
MaxCalls == 4

\* Array.prototype.join(sep) over texts
RECURSIVE join(_, _)
join(texts, sep) ==
  IF texts = <<>> THEN <<>>
  ELSE IF Len(texts) = 1 THEN texts[1]
  ELSE texts[1] \o <<sep>> \o join(Tail(texts), sep)

\* the block of one result in getSearchHistory
resultBlock(result) ==
  join(<< <<"### ", result.date, " - ", result.title>>, <<result.url>>, <<result.snippet>>,
          <<"<summary>">>, result.summary, <<"</summary>">> >>, "\n\n")

getSearchHistory(history) ==
  join([i \in Indices(history) |->
          join(<< <<"## Query: \"", history[i].query, "\"">> >>
               \o [j \in Indices(history[i].results) |-> resultBlock(history[i].results[j])],
               "\n\n")],
       "\n\n")

toUpperCase(role) ==
  CASE role = "user" -> "USER"
    [] role = "assistant" -> "ASSISTANT"

\* a part that is a string or a text part gives its text, any other part ""
partText(part) == IF part.type \in {"string", "text"} THEN <<part.text>> ELSE <<>>

RECURSIVE concat(_)
concat(texts) == IF texts = <<>> THEN <<>> ELSE texts[1] \o concat(Tail(texts))

contentText(content) ==
  IF content.kind = "string" THEN <<content.text>>
  ELSE IF content.kind = "array" THEN concat([k \in Indices(content.parts) |-> partText(content.parts[k])])
  ELSE <<>>

getMessageHistory(msgs) ==
  join([i \in Indices(msgs) |-> <<toUpperCase(msgs[i].role), ": ">> \o contentText(msgs[i].content)],
       "\n\n")

\* "" and undefined are falsy
falsy(str) == str \in {"", "undefined"}

getUserLocationContext(location) ==
  IF ~location.defined THEN <<>>
  ELSE IF falsy(location.latitude) \/ falsy(location.longitude)
          \/ falsy(location.city) \/ falsy(location.country) THEN <<>>
  ELSE <<"About the origin of user's request:\n- lat: ", location.latitude,
         "\n- lon: ", location.longitude, "\n- city: ", location.city,
         "\n- country: ", location.country>>

reportUsage(history, source, usage) == Append(history, [source |-> source, usage |-> usage])

RECURSIVE getTotalTokenUsage(_)
getTotalTokenUsage(history) ==
  IF history = <<>> THEN 0
  ELSE history[Len(history)].usage.totalTokens + getTotalTokenUsage(SubSeq(history, 1, Len(history) - 1))

\* argument pools
SearchEntries ==
  { [query |-> "q1",
     results |-> << [date |-> "2024-01-01", title |-> "T1", url |-> "u1", snippet |-> "n1",
                     summary |-> <<"s1">>] >>],
    [query |-> "q2", results |-> <<>>] }
MessageLists ==
  { <<>>,
    << [role |-> "user", content |-> [kind |-> "string", text |-> "hi", parts |-> <<>>]],
       [role |-> "assistant",
        content |-> [kind |-> "array", text |-> "",
                     parts |-> << [type |-> "text", text |-> "a"], [type |-> "image", text |-> ""],
                                  [type |-> "string", text |-> "b"] >>]] >> }
Locations ==
  { NoLocation,
    [defined |-> TRUE, latitude |-> "1", longitude |-> "2", city |-> "c", country |-> "k"],
    [defined |-> TRUE, latitude |-> "1", longitude |-> "2", city |-> "undefined", country |-> "k"] }
Usages == { [promptTokens |-> 3, completionTokens |-> 2, totalTokens |-> 5] }

\* a mutator was called: nothing read before counts as read from this state
Mutated(name) ==
  /\ ctxCalls < MaxCalls
  /\ ctxCalls' = ctxCalls + 1
  /\ lastCall' = name
  /\ reads' = [a \in Accessors |-> [reads[a] EXCEPT !.times = 0]]

\* accessor name was called and returned value
Read(name, value) ==
  /\ ctxCalls < MaxCalls
  /\ ctxCalls' = ctxCalls + 1
  /\ lastCall' = name
  /\ reads' = [reads EXCEPT ![name] = [times |-> reads[name].times + 1, value |-> value]]

CtxIncrementStep ==
  /\ Mutated("incrementStep")
  /\ step' = incrementStep(step)
  /\ UNCHANGED <<searchHistory, mostRecentFeedback, messages, userLocation, tokenUsageHistory>>
  /\ UNCHANGED exceptCtx

CtxReportSearch ==
  /\ Mutated("reportSearch")
  /\ \E search \in SearchEntries : searchHistory' = reportSearch(searchHistory, search)
  /\ UNCHANGED <<step, mostRecentFeedback, messages, userLocation, tokenUsageHistory>>
  /\ UNCHANGED exceptCtx

CtxReportUsage ==
  /\ Mutated("reportUsage")
  /\ \E usage \in Usages : tokenUsageHistory' = reportUsage(tokenUsageHistory, "query-rewriter", usage)
  /\ UNCHANGED <<step, searchHistory, mostRecentFeedback, messages, userLocation>>
  /\ UNCHANGED exceptCtx

CtxUpdateFeedback ==
  /\ Mutated("updateFeedback")
  /\ \E feedback \in Feedbacks : mostRecentFeedback' = updateFeedback(mostRecentFeedback, feedback)
  /\ UNCHANGED <<step, searchHistory, messages, userLocation, tokenUsageHistory>>
  /\ UNCHANGED exceptCtx

\* variant: shouldStop() counts its own calls as steps
CtxShouldStop_Counts ==
  /\ Read("shouldStop", shouldStop(step))
  /\ step' = step + 1
  /\ UNCHANGED <<searchHistory, mostRecentFeedback, messages, userLocation, tokenUsageHistory>>
  /\ UNCHANGED exceptCtx

CtxShouldStop ==
  /\ Read("shouldStop", shouldStop(step))
  /\ UNCHANGED <<step, searchHistory, mostRecentFeedback, messages, userLocation, tokenUsageHistory>>
  /\ UNCHANGED exceptCtx

CtxGetMostRecentFeedback ==
  /\ Read("getMostRecentFeedback", getMostRecentFeedback(mostRecentFeedback))
  /\ UNCHANGED <<step, searchHistory, mostRecentFeedback, messages, userLocation, tokenUsageHistory>>
  /\ UNCHANGED exceptCtx

CtxGetSearchHistory ==
  /\ Read("getSearchHistory", getSearchHistory(searchHistory))
  /\ UNCHANGED <<step, searchHistory, mostRecentFeedback, messages, userLocation, tokenUsageHistory>>
  /\ UNCHANGED exceptCtx

CtxGetMessageHistory ==
  /\ Read("getMessageHistory", getMessageHistory(messages))
  /\ UNCHANGED <<step, searchHistory, mostRecentFeedback, messages, userLocation, tokenUsageHistory>>
  /\ UNCHANGED exceptCtx

CtxGetUserLocationContext ==
  /\ Read("getUserLocationContext", getUserLocationContext(userLocation))
  /\ UNCHANGED <<step, searchHistory, mostRecentFeedback, messages, userLocation, tokenUsageHistory>>
  /\ UNCHANGED exceptCtx

CtxGetTotalTokenUsage ==
  /\ Read("getTotalTokenUsage", getTotalTokenUsage(tokenUsageHistory))
  /\ UNCHANGED <<step, searchHistory, mostRecentFeedback, messages, userLocation, tokenUsageHistory>>
  /\ UNCHANGED exceptCtx

CtxNext ==
  \/ CtxIncrementStep
  \/ CtxReportSearch
  \/ CtxReportUsage
  \/ CtxUpdateFeedback
  \/ CtxShouldStop
  \/ CtxGetMostRecentFeedback
  \/ CtxGetSearchHistory
  \/ CtxGetMessageHistory
  \/ CtxGetUserLocationContext
  \/ CtxGetTotalTokenUsage

\* new SystemContext(messages, userLocation)
InitCtx ==
  /\ LoopInit
  /\ organic = [q \in Queries |-> <<>>]
  /\ CrawlIdle
  /\ SummarizeIdle
  /\ PipelineIdle
  /\ SinkIdle
  /\ messages \in MessageLists
  /\ userLocation \in Locations
  /\ tokenUsageHistory = <<>>
  /\ lastCall = "none"
  /\ reads = NoReads
  /\ ctxCalls = 0

SpecCtx == InitCtx /\ [][CtxNext]_vars

(***************************************************************************)
(* Two runs of runAgentLoop side by side (part_013:151-340), fed the same  *)
(* provider responses: run A is given a sink that records, run B gets the  *)
(* default of streamFromDeepSearch, () => {}.  A run is a record; each     *)
(* operator below is the code between two awaits of the loop.              *)
(***************************************************************************)
\* longest plan the generation provider returns in the two-run model
MaxPlan == 2

NewRun ==
  [pc |-> "loop", step |-> 0, searchHistory |-> <<>>, mostRecentFeedback |-> "undefined",
   planResult |-> <<>>, answers |-> <<>>, callLog |-> <<>>, written |-> <<>>]

Annotation(type, items, dec, feedback) ==
  [type |-> type, items |-> items, decision |-> dec, feedback |-> feedback]

\* opts.writeMessageAnnotation(annotation): the recording sink keeps it, the
\* no-op sink drops it
writeMessageAnnotation(sink, written, annotation) ==
  IF sink = "recording" THEN Append(written, annotation) ELSE written

RECURSIVE writeAll(_, _, _)
writeAll(sink, written, annotations) ==
  IF annotations = <<>> THEN written
  ELSE writeAll(sink, writeMessageAnnotation(sink, written, Head(annotations)), Tail(annotations))

\* variant: no duplicate is removed
uniqueSources_KeepsAll(sources, n) == SubSeq(sources, 1, n)

\* allSources.filter((source, index, self) => index === self.findIndex(same url))
RECURSIVE uniqueSources(_, _)
uniqueSources(sources, n) ==
  IF n = 0 THEN <<>>
  ELSE IF \E j \in 1..(n - 1) : sources[j] = sources[n]
       THEN uniqueSources(sources, n - 1)
       ELSE Append(uniqueSources(sources, n - 1), sources[n])

\* successfulResults.flatMap((result) => result.results.map(...)), by url
allSources(records) ==
  concat([i \in Indices(records) |->
            [j \in Indices(records[i].results) |-> records[i].results[j].url]])

\* variant: the loop also stops once three annotations were written
loopHead_ReadsSink(r, sink) ==
  IF shouldStop(r.step) \/ Len(r.written) >= 3
  THEN [r EXCEPT !.pc = "answered", !.answers = Append(@, TRUE),
                 !.callLog = Append(@, "answerQuestion")]
  ELSE [r EXCEPT !.pc = "plan", !.callLog = Append(@, "queryRewriter")]

\* while (!ctx.shouldStop()): call queryRewriter, or leave the loop and answer
loopHead(r, sink) ==
  IF shouldStop(r.step)
  THEN [r EXCEPT !.pc = "answered", !.answers = Append(@, TRUE),
                 !.callLog = Append(@, "answerQuestion")]
  ELSE [r EXCEPT !.pc = "plan", !.callLog = Append(@, "queryRewriter")]

\* queryRewriter settled: plan annotation, then every branch writes its search
\* annotation and calls searchAndScrape
afterPlan(r, sink, resp) ==
  IF ~resp.ok \/ ~queryRewriterSchema(resp.queries)
  THEN [r EXCEPT !.pc = "rejected"]
  ELSE [r EXCEPT
          !.pc = "search",
          !.planResult = resp.queries,
          !.callLog = @ \o [i \in Indices(resp.queries) |-> "searchAndScrape"],
          !.written = writeAll(sink,
                        writeMessageAnnotation(sink, @, Annotation("plan", resp.queries, "", "")),
                        [i \in Indices(resp.queries) |->
                           Annotation("search", <<resp.queries[i]>>, "", "")])]

\* variant: the records are reported in the order their branches settled
afterSearch_BySettling(r, sink, settled) ==
  LET done == SelectSeq(r.order, LAMBDA i : IsFulfilled(settled[i]))
      records == [k \in Indices(done) |-> settled[done[k]].value]
  IN  [r EXCEPT
         !.pc = "decide",
         !.searchHistory = reportAll(@, records),
         !.callLog = Append(@, "getDecision")]

\* Promise.allSettled resolved: report the records, sources annotation if any
\* branch fulfilled, call getDecision
afterSearch(r, sink, settled) ==
  LET records == successfulResults(settled)
  IN  [r EXCEPT
         !.pc = "decide",
         !.searchHistory = reportAll(@, records),
         !.callLog = Append(@, "getDecision"),
         !.written = IF Len(records) > 0
                     THEN writeMessageAnnotation(sink, @,
                            Annotation("sources",
                                       uniqueSources(allSources(records), Len(allSources(records))),
                                       "", ""))
                     ELSE @]

\* variant: the "answer" branch lacks its return, the loop goes on
afterDecision_NoReturn(r, sink, resp) ==
  IF ~resp.ok THEN [r EXCEPT !.pc = "rejected"]
  ELSE LET stored == [r EXCEPT
                        !.mostRecentFeedback = updateFeedback(@, resp.feedback),
                        !.written = writeMessageAnnotation(sink, @,
                                      Annotation("decision", <<>>, resp.decision, resp.feedback))]
       IN  IF isAnswer(resp.decision)
           THEN [stored EXCEPT !.pc = "loop", !.step = incrementStep(@), !.planResult = <<>>,
                               !.answers = Append(@, FALSE),
                               !.callLog = Append(@, "answerQuestion")]
           ELSE [stored EXCEPT !.pc = "loop", !.step = incrementStep(@), !.planResult = <<>>]

\* getDecision settled: store the feedback, decision annotation, answer or
\* increment the step
afterDecision(r, sink, resp) ==
  IF ~resp.ok THEN [r EXCEPT !.pc = "rejected"]
  ELSE LET stored == [r EXCEPT
                        !.mostRecentFeedback = updateFeedback(@, resp.feedback),
                        !.written = writeMessageAnnotation(sink, @,
                                      Annotation("decision", <<>>, resp.decision, resp.feedback))]
       IN  IF isAnswer(resp.decision)
           THEN [stored EXCEPT !.pc = "answered", !.answers = Append(@, FALSE),
                               !.callLog = Append(@, "answerQuestion")]
           ELSE [stored EXCEPT !.pc = "loop", !.step = incrementStep(@), !.planResult = <<>>]

\* what the generation provider may answer queryRewriter with
PlanResponses ==
  { [ok |-> TRUE, queries |-> raw] : raw \in { g \in GenPool : Len(g) <= MaxPlan } }
    \cup { [ok |-> FALSE, queries |-> <<>>] }
DecisionResponses ==
  { [ok |-> TRUE, decision |-> d, feedback |-> fb] : d \in {"continue", "answer"}, fb \in Feedbacks }
    \cup { [ok |-> FALSE, decision |-> "", feedback |-> ""] }
\* the outcomes of the searchAndScrape calls of a plan
Settlements(queries) ==
  { [i \in Indices(queries) |->
       IF i \in ok THEN Fulfilled(searchAndScrape(queries[i], organic[queries[i]])) ELSE Rejected]
    : ok \in SUBSET Indices(queries) }

BothLoop ==
  /\ runA.pc = "loop"
  /\ runA' = loopHead(runA, "recording")
  /\ runB' = loopHead(runB, "noop")
  /\ UNCHANGED exceptSink

BothPlan ==
  /\ runA.pc = "plan"
  /\ \E resp \in PlanResponses :
       /\ runA' = afterPlan(runA, "recording", resp)
       /\ runB' = afterPlan(runB, "noop", resp)
  /\ UNCHANGED exceptSink

BothSearch ==
  /\ runA.pc = "search"
  /\ \E settled \in Settlements(runA.planResult) :
       /\ runA' = afterSearch(runA, "recording", settled)
       /\ runB' = afterSearch(runB, "noop", settled)
  /\ UNCHANGED exceptSink

BothDecide ==
  /\ runA.pc = "decide"
  /\ \E resp \in DecisionResponses :
       /\ runA' = afterDecision(runA, "recording", resp)
       /\ runB' = afterDecision(runB, "noop", resp)
  /\ UNCHANGED exceptSink

SinkNext ==
  \/ BothLoop
  \/ BothPlan
  \/ BothSearch
  \/ BothDecide

InitSink ==
  /\ LoopInit
  /\ organic \in Worlds
  /\ CrawlIdle
  /\ SummarizeIdle
  /\ PipelineIdle
  /\ CtxIdle
  /\ runA = NewRun
  /\ runB = NewRun

SpecSink == InitSink /\ [][SinkNext]_vars

(***************************************************************************)
(* Two runs of runAgentLoop given the same plans, the same outcome of      *)
(* every searchAndScrape call and the same decisions; their branches of    *)
(* searchPromises settle one at a time, in an order of each run's own      *)
(* (part_013:197-220).  A run record also carries searchResults (the       *)
(* promises by position), fate (how the call of each position will end)    *)
(* and order (the positions in the order they settled).  The first run     *)
(* is given a sink that records, the second the no-op sink.                *)
(***************************************************************************)
RacingRun == NewRun @@ [searchResults |-> <<>>, fate |-> <<>>, order |-> <<>>]

\* planResult.queries.map(async (query) => ...): one pending promise per query
searchPromises(r, fate) ==
  IF r.pc = "search"
  THEN [r EXCEPT !.searchResults = [i \in Indices(r.planResult) |-> Pending],
                 !.fate = fate, !.order = <<>>]
  ELSE r

\* the searchAndScrape call of position i fulfils or rejects
settle(r, i) ==
  [r EXCEPT
     !.searchResults[i] = IF r.fate[i]
                          THEN Fulfilled(searchAndScrape(r.planResult[i], organic[r.planResult[i]]))
                          ELSE Rejected,
     !.order = Append(@, i)]

\* the iteration's block-scoped constants go out of scope
endIteration(r) ==
  IF r.pc = "loop" THEN [r EXCEPT !.searchResults = <<>>, !.fate = <<>>, !.order = <<>>] ELSE r

RaceLoop ==
  /\ runA.pc = "loop"
  /\ runB.pc = "loop"
  /\ runA' = loopHead(runA, "recording")
  /\ runB' = loopHead(runB, "noop")
  /\ UNCHANGED exceptSink

RacePlan ==
  /\ runA.pc = "plan"
  /\ runB.pc = "plan"
  /\ \E resp \in PlanResponses : \E fate \in [Indices(resp.queries) -> BOOLEAN] :
       /\ runA' = searchPromises(afterPlan(runA, "recording", resp), fate)
       /\ runB' = searchPromises(afterPlan(runB, "noop", resp), fate)
  /\ UNCHANGED exceptSink

ASettles(i) ==
  /\ runA.pc = "search"
  /\ runA.searchResults[i].status = "pending"
  /\ runA' = settle(runA, i)
  /\ UNCHANGED runB
  /\ UNCHANGED exceptSink

BSettles(i) ==
  /\ runB.pc = "search"
  /\ runB.searchResults[i].status = "pending"
  /\ runB' = settle(runB, i)
  /\ UNCHANGED runA
  /\ UNCHANGED exceptSink

AAllSettled ==
  /\ runA.pc = "search"
  /\ \A i \in Indices(runA.searchResults) : runA.searchResults[i].status # "pending"
  /\ runA' = afterSearch(runA, "recording", runA.searchResults)
  /\ UNCHANGED runB
  /\ UNCHANGED exceptSink

BAllSettled ==
  /\ runB.pc = "search"
  /\ \A i \in Indices(runB.searchResults) : runB.searchResults[i].status # "pending"
  /\ runB' = afterSearch(runB, "noop", runB.searchResults)
  /\ UNCHANGED runA
  /\ UNCHANGED exceptSink

RaceDecide ==
  /\ runA.pc = "decide"
  /\ runB.pc = "decide"
  /\ \E resp \in DecisionResponses :
       /\ runA' = endIteration(afterDecision(runA, "recording", resp))
       /\ runB' = endIteration(afterDecision(runB, "noop", resp))
  /\ UNCHANGED exceptSink

OrderNext ==
  \/ RaceLoop
  \/ RacePlan
  \/ \E i \in Indices(runA.searchResults) : ASettles(i)
  \/ \E i \in Indices(runB.searchResults) : BSettles(i)
  \/ AAllSettled
  \/ BAllSettled
  \/ RaceDecide

InitOrder ==
  /\ LoopInit
  /\ organic \in Worlds
  /\ CrawlIdle
  /\ SummarizeIdle
  /\ PipelineIdle
  /\ CtxIdle
  /\ runA = RacingRun
  /\ runB = RacingRun

SpecOrder == InitOrder /\ [][OrderNext]_vars

(***************************************************************************)
(* Properties of runAgentLoop (checked under Spec / FairSpec)              *)
(***************************************************************************)
Done == pc \in {"answered", "rejected"}
FinalAnswerGiven == \E k \in 1..Len(answers) : answers[k]
NonFinalAnswerGiven == \E k \in 1..Len(answers) : ~answers[k]
FulfilledBranches == { i \in 1..Len(searchResults) : IsFulfilled(searchResults[i]) }
RejectedBranches == { i \in 1..Len(searchResults) : IsRejected(searchResults[i]) }
HasRepeatedQuery(queries) ==
  \E i \in 1..Len(queries), j \in 1..Len(queries) : i # j /\ queries[i] = queries[j]

\* C1: with the step limit of 10 the plan/search/decide body runs at most 10
\* times, and the loop leaves for answerQuestion(isFinal=true) exactly when the
\* loop check finds step >= 10: a forced final answer is given only once 10
\* iterations ended with "continue".
C1_StepLimitTen ==
  /\ calls.queryRewriter <= 10
  /\ (FinalAnswerGiven => step >= 10)

\* C2: answerQuestion(isFinal=false) is called only in an iteration whose
\* decision is "answer"; a "continue" decision never leads to a non-final
\* answer, and an "answer" decision leads to it in that same iteration.
C2_NonFinalOnlyOnAnswer ==
  /\ (NonFinalAnswerGiven => decision = "answer")
  /\ (decision = "continue" => ~NonFinalAnswerGiven)
  /\ (decision = "answer" => pc = "answered" /\ answers = <<FALSE>>)

C2_Witness == pc = "answered" /\ answers = <<FALSE>> /\ decision = "answer" /\ step = 1

\* C3: shouldStop() is true if and only if step >= 10, for the context the
\* agent loop uses.
C3_ShouldStopIffTen == shouldStop(step) <=> step >= 10

\* C4: an iteration that ends with "continue" calls incrementStep exactly once,
\* as its last action, an iteration that ends in answering does not, and
\* incrementStep adds exactly 1: step always equals the number of completed
\* "continue" iterations, and it changes only in the step that ends an iteration.
C4_StepCountsContinues ==
  /\ [](step = continues)
  /\ [][step' # step => pc = "decide" /\ pc' = "loop" /\ step' = step + 1]_vars
  /\ [][pc = "decide" /\ pc' = "answered" => step' = step]_vars

C4_Witness == pc = "loop" /\ continues = 2 /\ step = 2

\* number of steps runAgentLoop can still take: at most MAX_QUERIES + 4 per
\* iteration (enter, plan, one per branch, all settled, decision)
Measure ==
  IF Done THEN 0
  ELSE (StepLimit - step) * (MAX_QUERIES + 5)
       + (CASE pc = "loop" -> MAX_QUERIES + 4
            [] pc = "plan" -> MAX_QUERIES + 3
            [] pc = "search" ->
                 2 + Cardinality({ i \in 1..Len(searchResults) : searchResults[i].status = "pending" })
            [] pc = "decide" -> 1)

\* C5: if every provider call eventually returns or throws, every run of
\* runAgentLoop eventually returns answerQuestion's result or rejects; every
\* step brings the end closer (the number of steps left strictly decreases), so
\* no sequence of decisions makes it loop forever.
C5_Terminates ==
  /\ <>Done
  /\ [][Measure' < Measure]_vars

C5_Witness == pc = "answered" /\ answers = <<TRUE>> /\ continues = StepLimit

\* C6: when some branches of a round rejected, the settled round appends the
\* record of every fulfilled branch and nothing for a rejected one, keeps the
\* earlier history, and goes on to the decision step: a round never makes
\* runAgentLoop reject.
C6_PartialFailureIsolated ==
  /\ [][pc = "search" /\ pc' # "search" =>
          /\ pc' = "decide"
          /\ Len(searchHistory') = Len(searchHistory) + Cardinality(FulfilledBranches)
          /\ SubSeq(searchHistory', 1, Len(searchHistory)) = searchHistory
          /\ \A i \in FulfilledBranches :
               \E k \in (Len(searchHistory) + 1)..Len(searchHistory') :
                 searchHistory'[k] = searchResults[i].value
          /\ \A k \in (Len(searchHistory) + 1)..Len(searchHistory') :
               \E i \in FulfilledBranches : searchHistory'[k] = searchResults[i].value
     ]_vars
  /\ [](rejectedBy \in {"none", "queryRewriter", "getDecision"})

C6_Witness ==
  /\ pc = "decide"
  /\ RejectedBranches # {}
  /\ Cardinality(FulfilledBranches) = 2
  /\ Len(searchHistory) = 3

\* C7: if queryRewriter or getDecision throws, runAgentLoop rejects with that
\* error; the failed call is not repeated (one queryRewriter call per started
\* iteration, one getDecision call per settled round), answerQuestion is never
\* invoked and nothing happens after the rejection.
C7_PlannerDecisionErrorsFatal ==
  /\ [](pc = "rejected" =>
          /\ answers = <<>>
          /\ rejectedBy \in {"queryRewriter", "getDecision"}
          /\ calls.queryRewriter = continues + 1
          /\ calls.getDecision = continues + (IF rejectedBy = "getDecision" THEN 1 ELSE 0))
  /\ [][pc # "rejected"]_vars

C7_Witness == pc = "rejected" /\ rejectedBy = "getDecision" /\ step = 1

FailedCalls == { i \in Indices(urls) : ~crawl[i].success }
SucceededCalls == { i \in Indices(urls) : crawl[i].success }
\* the k-th call, in input order, that ended in a success
KthSucceeded(k) ==
  CHOOSE i \in SucceededCalls : Cardinality({ j \in SucceededCalls : j < i }) = k - 1

\* C9: the aggregate success flag is true iff every URL's crawl result is a
\* success; with any failed URL the flag is false and the error message has a
\* line for every failed URL (and for no other).
C9_AggregateFlag ==
  bulk.state = "resolved" =>
    /\ (bulk.success <=> FailedCalls = {})
    /\ (~bulk.success =>
          /\ Len(bulk.error) = Cardinality(FailedCalls)
          /\ { bulk.error[k].url : k \in Indices(bulk.error) } = { urls[i] : i \in FailedCalls })

C9_Witness ==
  /\ bulk.state = "resolved"
  /\ Len(urls) = 2
  /\ urls[1] # urls[2]
  /\ FailedCalls = {1, 2}

\* C10: the results of bulkCrawlWebsites hold one entry per input URL, in input
\* order, each with that URL's crawl result, whatever the aggregate flag; after
\* a failure scrapeUrl's partialResults are exactly the successful entries, in
\* input order, each with its content.
C10_EveryUrlHasAnEntry ==
  scrape.state = "returned" =>
    /\ Len(bulk.results) = Len(urls)
    /\ \A i \in Indices(urls) :
         bulk.results[i].url = urls[i] /\ bulk.results[i].result = crawl[i]
    /\ Len(scrape.pages) = Cardinality(SucceededCalls)
    /\ \A k \in Indices(scrape.pages) :
         scrape.pages[k] = [url |-> urls[KthSucceeded(k)], content |-> crawl[KthSucceeded(k)].data]

C10_Witness ==
  /\ scrape.state = "returned"
  /\ Len(urls) = 2
  /\ FailedCalls = {1}
  /\ ~scrape.success
  /\ Len(scrape.pages) = 1
  /\ scrape.pages[1].content \in Texts

\* ---- crawlWebsite: retries ----
FetchFailures == {"non-2xx", "threw"}
\* every fetch of call i so far has failed
AllFetchesFailed(i) == \A k \in Indices(responses[i]) : responses[i][k] \in FetchFailures
\* the first k-1 fetches of call i failed and the k-th was answered with a page
FailedThenSucceeded(i, k) ==
  /\ Len(responses[i]) = k
  /\ k >= 1
  /\ responses[i][k] \in Texts
  /\ \A j \in 1..(k - 1) : responses[i][j] \in FetchFailures
\* the failure message names the attempt count n
MentionsAttemptCount(r, n) ==
  /\ r.error \in {"Failed to fetch website after", "Network error after"}
  /\ r.after = n

\* C11: with maxRetries = M >= 1, when the first k-1 fetches of a crawlWebsite
\* call fail (thrown error or non-2xx, in any mix) and the k-th succeeds, k <= M,
\* the call returns a success carrying the text of that response and has made
\* exactly k fetches; fewer than M failures never end the call.
C11_RetryUntilSuccess ==
  \A i \in Indices(urls) :
    /\ \A k \in 1..DEFAULT_MAX_RETRIES :
         FailedThenSucceeded(i, k) =>
           /\ k <= maxRetries
           /\ crawlPc[i] = "done"
           /\ crawl[i] = CrawlSuccess(responses[i][k])
           /\ fetches[i] = k
    /\ (AllFetchesFailed(i) /\ Len(responses[i]) < maxRetries) => crawlPc[i] # "done"

C11_Witness ==
  /\ maxRetries = 3
  /\ \E i \in Indices(urls) :
       /\ FailedThenSucceeded(i, 3)
       /\ responses[i][1] # responses[i][2]
       /\ crawl[i].success
       /\ fetches[i] = 3

\* C12 as stated: for every maxRetries = M, a call that ended after M failed
\* fetches (and no other) is a failure whose message names the count M.
C12_FailureMentionsCount ==
  \A i \in Indices(urls) :
    (crawlPc[i] = "done" /\ AllFetchesFailed(i) /\ Len(responses[i]) = maxRetries) =>
      /\ ~crawl[i].success
      /\ MentionsAttemptCount(crawl[i], maxRetries)
      /\ fetches[i] = maxRetries

\* C12, amended: with maxRetries = M >= 1, M consecutive failed fetches (thrown
\* error or non-2xx, in any mix) end the call at once with a failure whose
\* message names the count M, after exactly M fetches; no call ever makes more
\* than M fetches. With M = 0 no fetch is made and the call fails with the fixed
\* message "Maximum retry attempts reached", which names no count.
C12_PermanentFailure ==
  \A i \in Indices(urls) :
    /\ fetches[i] <= maxRetries
    /\ (maxRetries >= 1 /\ AllFetchesFailed(i) /\ Len(responses[i]) = maxRetries) =>
         /\ crawlPc[i] = "done"
         /\ ~crawl[i].success
         /\ MentionsAttemptCount(crawl[i], maxRetries)
         /\ crawl[i].error = (IF responses[i][maxRetries] = "threw"
                               THEN "Network error after"
                               ELSE "Failed to fetch website after")
         /\ fetches[i] = maxRetries
    /\ (maxRetries = 0 /\ crawlPc[i] = "done") =>
         /\ fetches[i] = 0
         /\ crawl[i] = CrawlError("Maximum retry attempts reached", 0)

C12_Witness ==
  /\ maxRetries = 3
  /\ \E i \in Indices(urls) :
       /\ crawlPc[i] = "done"
       /\ responses[i] = <<"threw", "non-2xx", "threw">>
       /\ fetches[i] = 3
       /\ ~crawl[i].success

\* ---- summarizeURLs ----
ThrewFor == { i \in Indices(inputs) : summarizing[i].threw }
\* the first PREVIEW_LENGTH characters of a content
Preview(content) ==
  [k \in 1..Min(PREVIEW_LENGTH, Len(Chars(content))) |-> Chars(content)[k]]

\* C13: summarizeURLs never rejects; it resolves with exactly one entry per
\* input, in input order, each with the url, title, date and snippet of its
\* input; the entry of an input whose summarizeURL threw has the fallback
\* summary made of the first 500 characters of that input's scraped content.
C13_OneEntryPerInput ==
  /\ summaries.state # "rejected"
  /\ summaries.state = "resolved" =>
       /\ Len(summaries.value) = Len(inputs)
       /\ \A i \in Indices(inputs) :
            /\ summaries.value[i].url = inputs[i].url
            /\ summaries.value[i].title = inputs[i].title
            /\ summaries.value[i].date = inputs[i].date
            /\ summaries.value[i].snippet = inputs[i].snippet
            /\ IF i \in ThrewFor
               THEN summaries.value[i].summary =
                      <<FALLBACK_PREFIX>> \o Preview(inputs[i].scrapedContent) \o <<"...">>
               ELSE summaries.value[i].summary \in Summaries

C13_Witness ==
  /\ summaries.state = "resolved"
  /\ Len(inputs) = 5
  /\ Len(summaries.value) = 5
  /\ Cardinality(ThrewFor) = 1
  /\ \A i \in ThrewFor :
       /\ Len(Chars(inputs[i].scrapedContent)) > PREVIEW_LENGTH
       /\ Len(summaries.value[i].summary) = PREVIEW_LENGTH + 2

\* ---- searchAndScrape ----
\* the crawlWebsite calls for link that ended in a success
ScrapedOk(link) == { j \in Indices(urls) : urls[j] = link /\ crawl[j].success }
FirstOf(S) == CHOOSE j \in S : \A h \in S : j <= h

\* C14: searchAndScrape returns exactly one result per organic search result,
\* in the provider's order, each with the url, title and snippet of its search
\* result and its date ("Unknown date" when the provider gave none), under the
\* query it was called with; the summarizer gets one input per search result,
\* whose content is the fixed sentinel when no crawl of that URL succeeded and
\* the page text of the first successful crawl of that URL otherwise.
C14_OneResultPerSearchResult ==
  /\ pipePc \in {"summarize", "returned"} =>
       /\ Len(inputs) = Len(serper)
       /\ \A i \in Indices(serper) :
            /\ inputs[i].url = serper[i].link
            /\ inputs[i].scrapedContent =
                 (IF ScrapedOk(serper[i].link) = {} THEN SENTINEL
                  ELSE crawl[FirstOf(ScrapedOk(serper[i].link))].data)
  /\ pipePc = "returned" =>
       /\ pipeRet.query = pipeQuery
       /\ Len(pipeRet.results) = Len(serper)
       /\ \A i \in Indices(serper) :
            /\ pipeRet.results[i].url = serper[i].link
            /\ pipeRet.results[i].title = serper[i].title
            /\ pipeRet.results[i].snippet = serper[i].snippet
            /\ pipeRet.results[i].date =
                 (IF serper[i].date = "undefined" THEN "Unknown date" ELSE serper[i].date)

C14_Witness ==
  /\ pipePc = "returned"
  /\ Len(serper) = 2
  /\ serper[1].link # serper[2].link
  /\ ~crawl[1].success
  /\ crawl[2].success
  /\ inputs[1].scrapedContent = SENTINEL
  /\ inputs[2].scrapedContent = crawl[2].data
  /\ pipeRet.results[1].url = serper[1].link
  /\ pipeRet.results[2].title = serper[2].title

\* C15 as stated: when the scrape of every URL of the query failed, every
\* result returned by searchAndScrape has the raw snippet as its summary.
C15_SnippetAsSummary ==
  (pipePc = "returned" /\ \A j \in Indices(urls) : ~crawl[j].success) =>
    \A i \in Indices(pipeRet.results) : pipeRet.results[i].summary = <<pipeRet.results[i].snippet>>

\* ---- SystemContext ----
Called(name) == ctxCalls' = ctxCalls + 1 /\ lastCall' = name

\* C16: the search history is append-only: every step leaves the entries
\* already in it in place and unchanged, so its length never decreases; a step
\* that changes it is a call of reportSearch, and every call of reportSearch
\* adds exactly one entry at the end.
C16_HistoryAppendOnly ==
  [][/\ Len(searchHistory') >= Len(searchHistory)
     /\ SubSeq(searchHistory', 1, Len(searchHistory)) = searchHistory
     /\ (searchHistory' # searchHistory => Called("reportSearch"))
     /\ (Called("reportSearch") =>
           /\ Len(searchHistory') = Len(searchHistory) + 1
           /\ searchHistory'[Len(searchHistory')] \in SearchEntries)]_vars

C16_Witness ==
  /\ Len(searchHistory) = 3
  /\ searchHistory[1] # searchHistory[2]
  /\ lastCall = "updateFeedback"

\* C19: a call of shouldStop, getSearchHistory, getMessageHistory or
\* getUserLocationContext leaves step, search history, feedback, messages and
\* location (and the usage history) unchanged, and returns what the previous call
\* of the same accessor returned when no mutator was called in between.
C19_AccessorsArePure ==
  [][\A name \in {"shouldStop", "getSearchHistory", "getMessageHistory", "getUserLocationContext"} :
       Called(name) =>
         /\ UNCHANGED <<step, searchHistory, mostRecentFeedback, messages, userLocation,
                        tokenUsageHistory>>
         /\ (reads[name].times >= 1 => reads'[name].value = reads[name].value)]_vars

C19_Witness ==
  /\ lastCall = "getSearchHistory"
  /\ reads.getSearchHistory.times = 2
  /\ reads.getSearchHistory.value # <<>>
  /\ reads.shouldStop.times = 1
  /\ searchHistory # <<>>

\* ---- feedback ----
\* C17: getMostRecentFeedback returns exactly the feedback of the last decision
\* made, "" before the first one, and the queryRewriter call of round k+1 has
\* read the feedback of the getDecision result of round k ("" in round 1).
C17_FeedbackIsLastDecisions ==
  /\ getMostRecentFeedback(mostRecentFeedback) =
       (IF feedbacks = <<>> THEN "" ELSE feedbacks[Len(feedbacks)])
  /\ pc \in {"plan", "search", "decide"} =>
       /\ Len(feedbacks) = continues
       /\ promptFeedback = (IF continues = 0 THEN "" ELSE feedbacks[continues])

C17_Witness ==
  /\ pc = "answered"
  /\ Len(feedbacks) = 2
  /\ feedbacks[1] # feedbacks[2]
  /\ promptFeedback = feedbacks[1]
  /\ mostRecentFeedback = feedbacks[2]

\* ---- the fan-out and the context ----
\* some searchAndScrape branch of the round has not settled yet
BranchInFlight == pc = "search" /\ \E i \in Indices(searchResults) : searchResults[i].status = "pending"

\* C20: while any searchAndScrape branch of the round is in flight no step
\* changes the context (step, search history, feedback); the search history
\* changes only in the loop's own step after every branch has settled, which
\* appends the records of the fulfilled branches one after another, in order.
C20_AppendsAfterAllSettled ==
  [][/\ BranchInFlight => UNCHANGED <<step, searchHistory, mostRecentFeedback>>
     /\ searchHistory' # searchHistory =>
          /\ pc = "search"
          /\ pc' = "decide"
          /\ \A i \in Indices(searchResults) : searchResults[i].status # "pending"
          /\ LET ok == SelectSeq(searchResults, LAMBDA r : r.status = "fulfilled")
             IN  searchHistory' = searchHistory \o [k \in Indices(ok) |-> ok[k].value]]_vars

C20_Witness ==
  /\ BranchInFlight
  /\ \E i \in Indices(searchResults) : IsFulfilled(searchResults[i])
  /\ step = 1
  /\ searchHistory # <<>>

\* ---- the progress sink ----
\* a run without what it wrote to its sink
Core(r) == [r EXCEPT !.written = <<>>]

\* C18: fed the same provider responses, the run with the recording sink and
\* the run with the no-op sink are at the same position with the same provider
\* calls made, the same step, search history and feedback and the same
\* answerQuestion invocations (isFinal flags): what was written to the sink
\* never changes what the loop does.
C18_SinkIsWriteOnly ==
  /\ Core(runA) = Core(runB)
  /\ runB.written = <<>>

C18_Witness ==
  /\ runA.pc = "answered"
  /\ runA.answers = <<FALSE>>
  /\ runB.answers = <<FALSE>>
  /\ runA.step = 1
  /\ Len(runA.searchHistory) >= 2
  /\ runB.searchHistory = runA.searchHistory
  /\ Len(runA.written) >= 8
  /\ \E k \in Indices(runA.written) : runA.written[k].type = "sources"

\* ---- the backoff schedule ----
\* C21: while crawlWebsite waits before its n-th retry (n failed fetches so
\* far, n = 1, 2, ...), the wait is min(500 ms * 2^(n-1), 8000 ms), whichever
\* kind of failure preceded it: 0.5 s first, then 1 s, 2 s, 4 s, 8 s.
C21_BackoffSchedule ==
  \A i \in Indices(urls) :
    crawlPc[i] = "backoff" =>
      delay[i] = Min(MIN_DELAY_MS * Pow2(attempts[i] - 1), MAX_DELAY_MS)

\* ---- the sources annotation ----
\* what run A appended to its context, and wrote to its sink, in this step
Appended == SubSeq(runA'.searchHistory, Len(runA.searchHistory) + 1, Len(runA'.searchHistory))
Written == SubSeq(runA'.written, Len(runA.written) + 1, Len(runA'.written))
\* the position of the first occurrence of url u in the sequence s
FirstAt(s, u) == CHOOSE k \in Indices(s) : s[k] = u /\ \A j \in 1..(k - 1) : s[j] # u

\* C22: in the step that follows the settling of a round's branches, the
\* sources annotation (written iff some branch succeeded) lists exactly the
\* URLs of the records appended in that step, each once, ordered by first
\* occurrence in the records; the appended records are the successful
\* pipelines' full results, nothing removed, also when URLs repeat.
C22_SourcesDeduplicated ==
  [][(runA.pc = "search" /\ runA'.pc = "decide") =>
       LET flat == allSources(Appended)
       IN  /\ \A k \in Indices(Appended) :
                Appended[k] = searchAndScrape(Appended[k].query, organic[Appended[k].query])
           /\ IF Appended = <<>> THEN Written = <<>>
              ELSE /\ Len(Written) = 1
                   /\ Written[1].type = "sources"
                   /\ LET sources == Written[1].items
                      IN  /\ { sources[k] : k \in Indices(sources) } = { flat[k] : k \in Indices(flat) }
                          /\ \A k1, k2 \in Indices(sources) :
                               k1 < k2 => /\ sources[k1] # sources[k2]
                                          /\ FirstAt(flat, sources[k1]) < FirstAt(flat, sources[k2])]_vars

\* the round planned q2, q1: u2 occurs in both records, the annotation has it once
C22_Witness ==
  /\ runA.pc = "decide"
  /\ Len(runA.searchHistory) = 2
  /\ allSources(runA.searchHistory) = <<"u2", "u1", "u2">>
  /\ runA.written[Len(runA.written)].type = "sources"
  /\ runA.written[Len(runA.written)].items = <<"u2", "u1">>

\* ---- the order of a round ----
\* the records of the branches that fulfilled, in branch order
RoundRecords(results) ==
  LET ok == SelectSeq(results, LAMBDA r : r.status = "fulfilled")
  IN  [k \in Indices(ok) |-> ok[k].value]
EndsWith(s, t) == Len(s) >= Len(t) /\ SubSeq(s, Len(s) - Len(t) + 1, Len(s)) = t

\* C23: searches start only in the step in which queryRewriter returned a
\* valid plan, one per planned query; branches settle only after that and
\* before anything is appended or decided; getDecision is called only in the
\* step in which all branches have settled and the successful records were
\* appended, once per round, so while getDecision runs the context ends with
\* every successful record of the round.
C23_RoundOrder ==
  [][/\ (calls'.searchAndScrape # calls.searchAndScrape =>
           /\ pc = "plan"
           /\ pc' = "search"
           /\ queryRewriterSchema(planResult')
           /\ calls'.searchAndScrape = calls.searchAndScrape + Len(planResult')
           /\ searchResults' = [i \in Indices(planResult') |-> Pending]
           /\ UNCHANGED <<searchHistory, step>>)
     /\ ((pc = "search" /\ searchResults' # searchResults) =>
           /\ planResult # <<>>
           /\ Len(searchResults') = Len(planResult)
           /\ calls'.queryRewriter = calls.getDecision + 1
           /\ UNCHANGED <<pc, planResult, searchHistory, calls>>)
     /\ (calls'.getDecision # calls.getDecision =>
           /\ pc = "search"
           /\ \A i \in Indices(searchResults) : searchResults[i].status # "pending"
           /\ calls'.getDecision = calls.queryRewriter
           /\ UNCHANGED <<planResult, searchResults>>)
     /\ (pc' = "decide" =>
           /\ \A i \in Indices(searchResults') : searchResults'[i].status # "pending"
           /\ EndsWith(searchHistory', RoundRecords(searchResults')))]_vars

\* getDecision of the second round runs: one branch failed, one succeeded
C23_Witness ==
  /\ pc = "decide"
  /\ step = 1
  /\ calls.getDecision = 2
  /\ Len(planResult) >= 2
  /\ \E i \in Indices(searchResults) : IsRejected(searchResults[i])
  /\ Len(RoundRecords(searchResults)) >= 1
  /\ Len(searchHistory) > Len(RoundRecords(searchResults))

\* ---- the search provider call ----
\* C24: searchAndScrape calls the search provider exactly once for its query;
\* when that call fails, searchAndScrape rejects without a second call and
\* without any scrape (no crawlWebsite call, no fetch) or summarizer call; a
\* scrape or summarizer call is only made for links the provider returned.
C24_SearchCalledOnce ==
  /\ serperCalls = 1
  /\ pipePc \in {"search", "rejected"} =>
       /\ urls = <<>>
       /\ fetches = <<>>
       /\ bulk.state = "pending"
       /\ scrape.state = "pending"
       /\ inputs = <<>>
       /\ summarizing = <<>>
       /\ summaries.state = "idle"
       /\ pipeRet.results = <<>>
  /\ pipePc \in {"scrape", "summarize", "returned"} =>
       /\ urls = [i \in Indices(serper) |-> serper[i].link]
       /\ Len(inputs) \in {0, Len(serper)}

\* the provider call failed and searchAndScrape has rejected
C24_Witness ==
  /\ pipePc = "rejected"
  /\ serperCalls = 1
  /\ serper = <<>>
  /\ pipeQuery = "q2"

\* ---- completion order ----
\* the records of the queries of run r's plan whose call fulfilled, in the
\* planner's order
InPlanOrder(r) ==
  LET F[i \in 0..Len(r.planResult)] ==
        IF i = 0 THEN <<>>
        ELSE IF r.fate[i]
             THEN Append(F[i - 1], searchAndScrape(r.planResult[i], organic[r.planResult[i]]))
             ELSE F[i - 1]
  IN  F[Len(r.planResult)]

\* C25: when a run has appended the records of a round, its search history
\* ends with the records of the round's successful queries in the planner's
\* query order, whatever order its branches settled in; two runs with the
\* same plans and outcomes, whose branches settled in different orders, have
\* the same search history at the end of the round.
C25_PlanOrderKept ==
  /\ \A r \in {runA, runB} :
       r.pc = "decide" =>
         /\ Len(r.order) = Len(r.planResult)
         /\ EndsWith(r.searchHistory, InPlanOrder(r))
  /\ (runA.pc = "decide" /\ runB.pc = "decide") => runA.searchHistory = runB.searchHistory

\* second round; run A's branches settled 1, 2 and run B's 2, 1, both succeeded
C25_Witness ==
  /\ runA.pc = "decide"
  /\ runB.pc = "decide"
  /\ runA.step = 1
  /\ runA.order = <<1, 2>>
  /\ runB.order = <<2, 1>>
  /\ runA.fate = <<TRUE, TRUE>>
  /\ runA.planResult[1] # runA.planResult[2]
  /\ Len(runA.searchHistory) >= 3
  /\ runB.searchHistory = runA.searchHistory

\* ---- the failure records ----
\* the planned queries at the positions of the rejected outcomes, in order
RejectedQueries ==
  LET F[i \in 0..Len(searchResults)] ==
        IF i = 0 THEN <<>>
        ELSE IF IsRejected(searchResults[i]) THEN Append(F[i - 1], planResult[i])
        ELSE F[i - 1]
  IN  F[Len(searchResults)]

\* C26: once the outcomes of a round were processed, there is one failure
\* record per rejected outcome and the k-th record names the planned query at
\* the position of the k-th rejected outcome.
C26_FailureNamesItsQuery ==
  pc = "decide" =>
    /\ Len(failedResults) = Len(RejectedQueries)
    /\ \A k \in Indices(failedResults) : failedResults[k].query = RejectedQueries[k]

\* ---- step range and finality ----
\* C27: step stays within 0..10 and never decreases; a final answer
\* (isFinal=true) is given only at step = 10 and a non-final one only at
\* step <= 9.
C27_StepRangeAndFinality ==
  /\ [](step \in 0..10)
  /\ [][step' >= step]_vars
  /\ [](FinalAnswerGiven => step = 10)
  /\ [](NonFinalAnswerGiven => step <= 9)

\* ---- answering ends the run ----
AnswerCalls(r) == Len(SelectSeq(r.callLog, LAMBDA c : c = "answerQuestion"))

\* C28: answerQuestion is invoked at most once in a run, as the run's last
\* call; once it has been invoked the run makes no further call (planner,
\* searchAndScrape, decision), writes no annotation and leaves step, search
\* history and feedback as they are.
C28_AnswerIsLast ==
  [][/\ AnswerCalls(runA') <= 1
     /\ Len(runA'.answers) = AnswerCalls(runA')
     /\ (AnswerCalls(runA') = 1 => runA'.callLog[Len(runA'.callLog)] = "answerQuestion")
     /\ (AnswerCalls(runA) >= 1 =>
           /\ runA'.callLog = runA.callLog
           /\ runA'.written = runA.written
           /\ runA'.step = runA.step
           /\ runA'.searchHistory = runA.searchHistory
           /\ runA'.mostRecentFeedback = runA.mostRecentFeedback)]_vars

\* the final answer after two rounds, annotations written before it
C28_Witness ==
  /\ runA.pc = "answered"
  /\ runA.answers = <<TRUE>>
  /\ AnswerCalls(runA) = 1
  /\ runA.step = StepLimit
  /\ runA.searchHistory # <<>>
  /\ Len(runA.written) >= 6

\* ---- scrape failures are values ----
\* C29: no crawlWebsite call ever rejects: a call that is over has returned
\* either a success or {success: false, error}, the latter after a thrown
\* fetch or body read as well as after a non-2xx response; bulkCrawlWebsites
\* and scrapeUrl therefore resolve with one entry per URL, and searchAndScrape
\* never rejects once the search provider answered, even if every crawl failed.
C29_ScrapeFailureIsAValue ==
  /\ \A i \in Indices(urls) :
       /\ crawlPc[i] \in {"loop", "fetch", "backoff", "done"}
       /\ crawlPc[i] = "done" =>
            /\ responses[i] # <<>>
            /\ LET last == responses[i][Len(responses[i])]
               IN  CASE last = "threw" -> crawl[i] = CrawlError("Network error after", maxRetries)
                     [] last = "non-2xx" -> crawl[i] = CrawlError("Failed to fetch website after", maxRetries)
                     [] OTHER -> crawl[i] = CrawlSuccess(last)
  /\ bulk.state \in {"pending", "resolved"}
  /\ bulk.state = "resolved" => Len(bulk.results) = Len(urls)
  /\ scrape.state \in {"pending", "returned"}
  /\ pipePc = "rejected" => (urls = <<>> /\ serper = <<>>)
  /\ summaries.state # "idle" => scrape.state = "returned"

\* both crawls failed for good, one by a thrown error and one by a non-2xx
\* response, and searchAndScrape still returned a result per link
C29_Witness ==
  /\ pipePc = "returned"
  /\ Len(urls) = 2
  /\ crawl[1].error = "Network error after"
  /\ crawl[2].error = "Failed to fetch website after"
  /\ bulk.state = "resolved"
  /\ ~bulk.success
  /\ ~scrape.success
  /\ Len(pipeRet.results) = 2

\* ---- rounds in which every query fails ----
Rounds(r) == Len(SelectSeq(r.callLog, LAMBDA c : c = "getDecision"))
AllRejected(r) == \A i \in Indices(r.searchResults) : IsRejected(r.searchResults[i])

\* a round of the first run whose queries all failed: the step after
\* Promise.allSettled appends nothing, writes nothing and calls getDecision;
\* the step after getDecision stores the feedback and either answers
\* (non-final) or increments step
FailedRound ==
  /\ (runA.pc = "search" /\ runA'.pc = "decide" /\ AllRejected(runA)) =>
       /\ runA'.searchHistory = runA.searchHistory
       /\ runA'.written = runA.written
       /\ runA'.callLog = Append(runA.callLog, "getDecision")
  /\ (runA.pc = "decide" /\ AllRejected(runA) /\ runA'.pc # "rejected" /\ runA' # runA) =>
       /\ runA'.searchHistory = runA.searchHistory
       /\ runA'.mostRecentFeedback \in Feedbacks
       /\ runA'.written[Len(runA'.written)].feedback = runA'.mostRecentFeedback
       /\ \/ runA'.pc = "answered" /\ runA'.answers = <<FALSE>> /\ runA'.step = runA.step
          \/ runA'.pc = "loop" /\ runA'.answers = <<>> /\ runA'.step = runA.step + 1

\* C30: a round whose queries all fail behaves as FailedRound says, and a run
\* that ends in answerQuestion(isFinal=true) over an empty search history (all
\* queries of all rounds failed, every decision was "continue") went through
\* 10 rounds.
C30_AllQueriesFail ==
  /\ [][FailedRound]_vars
  /\ [](runA.pc = "answered" /\ runA.answers = <<TRUE>> /\ runA.searchHistory = <<>>
          => Rounds(runA) = 10)

====
